---- MODULE Spec2Model ----
(***************************************************************************)
(* Usage metering and daily rollup engine of the Voravia backend           *)
(* (src/src/server.js): the usage_events ledger, the daily_usage_rollups   *)
(* table, runDailyRollup with its scheduler, and the read-side endpoints   *)
(* that merge rollups with today's live events.                            *)
(*                                                                         *)
(* Time is counted in ticks; a UTC day is TicksPerDay ticks.  An ISO       *)
(* timestamp is modelled by its tick, an ISO day string (YYYY-MM-DD) by    *)
(* the day's number: both orders agree with the string orders SQLite       *)
(* compares.  Money is counted in whole micro-dollars.                     *)
(***************************************************************************)
EXTENDS Integers, Sequences, FiniteSets, Bags, TLC

\* ---------------------------------------------------------------- bounds
MaxEvents == 2
MaxNow == 3
MaxOutageNow == 4

\* ---------------------------------------------------------------- values
NULL == "null"
TicksPerDay == 2

Max(a, b) == IF a >= b THEN a ELSE b
Min(a, b) == IF a <= b THEN a ELSE b

\* JavaScript `x || null` on an optional string: missing and "" become null.
OrNull(x) == IF x = "" \/ x = NULL THEN NULL ELSE x

RECURSIVE SumFn(_)
SumFn(f) ==
  IF DOMAIN f = {} THEN 0
  ELSE LET x == CHOOSE y \in DOMAIN f : TRUE
       IN f[x] + SumFn([y \in (DOMAIN f) \ {x} |-> f[y]])

RECURSIVE SeqOfSet(_)
SeqOfSet(S) ==
  IF S = {} THEN << >>
  ELSE LET x == CHOOSE y \in S : TRUE
       IN <<x>> \o SeqOfSet(S \ {x})

\* ---------------------------------------------------------------- inputs
\* Requests as the middleware leaves them: requestId, ctx.userId,
\* ctx.billingOwnerId, ctx.me.mode.
Requests ==
  { [requestId |-> "r1", userId |-> "u1", billingOwnerId |-> "u1", mode |-> "family"],
    [requestId |-> "r2", userId |-> "u2", billingOwnerId |-> "u2", mode |-> "individual"] }

\* What a producer meters: provider, service, units, unitCostUsd, costUsd.
Charges ==
  { [provider |-> "openai", service |-> "openai_scan_vision",
     units |-> 1, unitCostUsd |-> 2, costUsd |-> 2],
    [provider |-> "google", service |-> "google_places_searchNearby",
     units |-> 1, unitCostUsd |-> 1, costUsd |-> 1] }

\* evt.subjectUserId as a producer may pass it: empty, missing, or a member id.
SubjectInputs == {"", NULL, "m1"}

\* Raw query parameters of the read endpoints (0 and "" stand for "not given").
DaysInputs == {0, 1, 2}
LimitInputs == {-5, 0, 1, 2, 200, 1000, 1001}
ProviderInputs == {"", "openai", "google", "OpenAI"}

VARIABLES
  now,      \* the wall clock, in ticks
  events,   \* table usage_events, in insertion order
  rollups,  \* table daily_usage_rollups, a bag of rows
  timer,    \* "unset" until the startup rollup has run, then "armed"
  tx,       \* the open transaction of a rollup run that is on the stack
  cache,    \* the NodeCache of handler payloads: its keys and their expiry
  res       \* what the operation that has just run returned

vars == <<now, events, rollups, timer, tx, cache, res>>

\* ---------------------------------------------------------------- dates
isoDayUtc(ts) == ts \div TicksPerDay

dayRangeUtc(day) ==
  [startIso |-> day * TicksPerDay, endIso |-> (day + 1) * TicksPerDay]

\* ---------------------------------------------------------------- event store
makeUsageId(evs) == Len(evs) + 1

\* Mutant: the subject stored as given.
emitUsageEvent_KeepEmpty(req, evt, evs, ts) ==
  [ id |-> makeUsageId(evs),
    ts |-> ts,
    requestId |-> OrNull(req.requestId),
    actorUserId |-> OrNull(req.userId),
    billingOwnerId |-> OrNull(req.billingOwnerId),
    subjectUserId |-> evt.subjectUserId,
    mode |-> OrNull(req.mode),
    provider |-> evt.provider,
    service |-> evt.service,
    units |-> evt.units,
    unitCostUsd |-> evt.unitCostUsd,
    costUsd |-> evt.costUsd ]

emitUsageEvent(req, evt, evs, ts) ==
  [ id |-> makeUsageId(evs),
    ts |-> ts,
    requestId |-> OrNull(req.requestId),
    actorUserId |-> OrNull(req.userId),
    billingOwnerId |-> OrNull(req.billingOwnerId),
    subjectUserId |-> IF evt.subjectUserId = "" \/ evt.subjectUserId = NULL
                      THEN NULL ELSE evt.subjectUserId,
    mode |-> OrNull(req.mode),
    provider |-> evt.provider,
    service |-> evt.service,
    units |-> evt.units,
    unitCostUsd |-> evt.unitCostUsd,
    costUsd |-> evt.costUsd ]

\* Mutant: INSERT OR REPLACE on an id that only holds the millisecond.
usageStoreInsert_Replace(evs, record) ==
  IF Len(evs) > 0 /\ evs[Len(evs)].ts = record.ts
  THEN [evs EXCEPT ![Len(evs)] = record]
  ELSE Append(evs, record)

usageStoreInsert(evs, record) == Append(evs, record)

\* ---------------------------------------------------------------- rollup engine
GroupKey(e) ==
  [ billingOwnerId |-> e.billingOwnerId, actorUserId |-> e.actorUserId,
    subjectUserId |-> e.subjectUserId, provider |-> e.provider,
    service |-> e.service ]

\* Mutant: GROUP BY without subjectUserId.
rollupSelectStmt_NoSubject(evs, day, startIso, endIso) ==
  LET inWin == {i \in DOMAIN evs : evs[i].ts >= startIso /\ evs[i].ts < endIso}
      short(e) == [GroupKey(e) EXCEPT !.subjectUserId = NULL]
      keys == {short(evs[i]) : i \in inWin}
      grp(k) == {i \in inWin : short(evs[i]) = k}
      first(k) == evs[CHOOSE i \in grp(k) : \A j \in grp(k) : i <= j]
      row(k) ==
        [ day |-> day,
          billingOwnerId |-> k.billingOwnerId, actorUserId |-> k.actorUserId,
          subjectUserId |-> first(k).subjectUserId, provider |-> k.provider,
          service |-> k.service,
          events |-> Cardinality(grp(k)),
          units |-> SumFn([i \in grp(k) |-> evs[i].units]),
          costUsd |-> SumFn([i \in grp(k) |-> evs[i].costUsd]) ]
  IN SeqOfSet({row(k) : k \in keys})

\* Mutant: WHERE ts >= @startIso AND ts <= @endIso.
rollupSelectStmt_ClosedEnd(evs, day, startIso, endIso) ==
  LET inWin == {i \in DOMAIN evs : evs[i].ts >= startIso /\ evs[i].ts <= endIso}
      keys == {GroupKey(evs[i]) : i \in inWin}
      grp(k) == {i \in inWin : GroupKey(evs[i]) = k}
      row(k) ==
        [ day |-> day,
          billingOwnerId |-> k.billingOwnerId, actorUserId |-> k.actorUserId,
          subjectUserId |-> k.subjectUserId, provider |-> k.provider,
          service |-> k.service,
          events |-> Cardinality(grp(k)),
          units |-> SumFn([i \in grp(k) |-> evs[i].units]),
          costUsd |-> SumFn([i \in grp(k) |-> evs[i].costUsd]) ]
  IN SeqOfSet({row(k) : k \in keys})

\* SELECT ... FROM usage_events WHERE ts >= @startIso AND ts < @endIso
\* GROUP BY billingOwnerId, actorUserId, subjectUserId, provider, service
rollupSelectStmt(evs, day, startIso, endIso) ==
  LET inWin == {i \in DOMAIN evs : evs[i].ts >= startIso /\ evs[i].ts < endIso}
      keys == {GroupKey(evs[i]) : i \in inWin}
      grp(k) == {i \in inWin : GroupKey(evs[i]) = k}
      row(k) ==
        [ day |-> day,
          billingOwnerId |-> k.billingOwnerId, actorUserId |-> k.actorUserId,
          subjectUserId |-> k.subjectUserId, provider |-> k.provider,
          service |-> k.service,
          events |-> Cardinality(grp(k)),
          units |-> SumFn([i \in grp(k) |-> evs[i].units]),
          costUsd |-> SumFn([i \in grp(k) |-> evs[i].costUsd]) ]
  IN SeqOfSet({row(k) : k \in keys})

\* PRIMARY KEY (day, billingOwnerId, actorUserId, subjectUserId, provider,
\* service): SQLite treats NULLs in a key as distinct, so two rows conflict
\* only if all six columns are equal and none is NULL.
SameKey(r, s) ==
  /\ r.day = s.day
  /\ r.billingOwnerId = s.billingOwnerId
  /\ r.actorUserId = s.actorUserId
  /\ r.subjectUserId = s.subjectUserId
  /\ r.provider = s.provider
  /\ r.service = s.service

KeyConflict(r, s) ==
  /\ SameKey(r, s)
  /\ NULL \notin {r.billingOwnerId, r.actorUserId, r.subjectUserId}

BagWhere(b, P(_)) ==
  LET keep == {r \in BagToSet(b) : P(r)}
  IN [r \in keep |-> b[r]]

\* INSERT OR REPLACE INTO daily_usage_rollups ...
rollupUpsertStmt(table, r) ==
  LET row == [r EXCEPT !.billingOwnerId = OrNull(@),
                       !.actorUserId = OrNull(@),
                       !.subjectUserId = OrNull(@)]
      notReplaced(s) == ~KeyConflict(row, s)
  IN BagWhere(table, notReplaced) (+) SetToBag({row})

\* DELETE FROM daily_usage_rollups WHERE day = ?
rollupDeleteDay(table, day) ==
  LET otherDay(s) == s.day # day
  IN BagWhere(table, otherDay)

\* Mutant: the transaction body without the DELETE.
RECURSIVE txBody_NoDelete(_, _, _, _)
txBody_NoDelete(table, day, items, k) ==
  IF k = 0 THEN table
  ELSE rollupUpsertStmt(txBody_NoDelete(table, day, items, k - 1), items[k])

\* The body of the transaction after the DELETE and the first k inserts.
RECURSIVE txBody(_, _, _, _)
txBody(table, day, items, k) ==
  IF k = 0 THEN rollupDeleteDay(table, day)
  ELSE rollupUpsertStmt(txBody(table, day, items, k - 1), items[k])

\* A run's fault: << >> when no statement throws, <<k>> when the statement
\* after the DELETE and k inserts throws.
NoFail == << >>

\* Mutant: the statements run outside a transaction, nothing is rolled back.
runTransaction_NoRollback(table, day, items, failAt) ==
  IF failAt = NoFail THEN txBody(table, day, items, Len(items))
  ELSE txBody(table, day, items, failAt[1])

\* usageDb.transaction(fn)(items): commits when fn returns, rolls back to the
\* state before BEGIN when a statement throws.
runTransaction(table, day, items, failAt) ==
  IF failAt = NoFail THEN txBody(table, day, items, Len(items))
  ELSE table

\* Mutant: the default day is the current day.
defaultRollupDay_Today(t) == isoDayUtc(t)

\* Mutant: the default day is the day before yesterday.
defaultRollupDay_DayBefore(t) == isoDayUtc(t - 2 * TicksPerDay)

\* dayStr || isoDayUtc(new Date(Date.now() - 24 * 3600 * 1000))
defaultRollupDay(t) == isoDayUtc(t - TicksPerDay)

\* runDailyRollup(dayStr): the table afterwards and the value returned.
runDailyRollup(table, evs, day, failAt) ==
  LET range == dayRangeUtc(day)
      rows == rollupSelectStmt(evs, day, range.startIso, range.endIso)
  IN [ table |-> runTransaction(table, day, rows, failAt),
       ret |-> [day |-> day, rows |-> Len(rows)] ]

FailPoints(evs, day) ==
  LET range == dayRangeUtc(day)
  IN {<<k>> : k \in 0 .. Len(rollupSelectStmt(evs, day, range.startIso, range.endIso))}

\* ---------------------------------------------------------------- query layer
\* Math.max(1, Math.min(Number(req.query.days) || 30, 365))
clampDays(raw) == Max(1, Min(IF raw = 0 THEN 30 ELSE raw, 365))

toLowerCase(p) == IF p = "OpenAI" THEN "openai" ELSE p

\* String(req.query.provider || "all").trim().toLowerCase()
normProvider(raw) == toLowerCase(IF raw = "" THEN "all" ELSE raw)

\* Mutant: the live range starts 24 hours before now.
todayStartTs_Last24h(t) == t - TicksPerDay

\* new Date(Date.UTC(now.getUTCFullYear(), now.getUTCMonth(), now.getUTCDate()))
todayStartTs(t) == isoDayUtc(t) * TicksPerDay

\* start = new Date(); start.setUTCDate(start.getUTCDate() - back); isoDayUtc(start)
windowStartDay(t, back) == isoDayUtc(t - back * TicksPerDay)

providerSql(provider, r) == provider = "all" \/ r.provider = provider

BagSum(b, f(_)) == SumFn([r \in BagToSet(b) |-> f(r) * b[r]])

CostOf(r) == r.costUsd
EventsOf(r) == r.events

RECURSIVE SortDescByCost(_)
SortDescByCost(S) ==
  IF S = {} THEN << >>
  ELSE LET m == CHOOSE x \in S : \A y \in S : x.costUsd >= y.costUsd
       IN <<m>> \o SortDescByCost(S \ {m})

RECURSIVE SortAscByDay(_)
SortAscByDay(S) ==
  IF S = {} THEN << >>
  ELSE LET m == CHOOSE x \in S : \A y \in S : x.day <= y.day
       IN <<m>> \o SortAscByDay(S \ {m})

\* SELECT provider, service, SUM(costUsd), SUM(events) ... GROUP BY provider, service
\* ORDER BY costUsd DESC
rollupByService(rows) ==
  LET keys == {<<r.provider, r.service>> : r \in BagToSet(rows)}
      of(k) == LET mine(r) == r.provider = k[1] /\ r.service = k[2]
               IN BagWhere(rows, mine)
  IN SortDescByCost({ [provider |-> k[1], service |-> k[2],
                       costUsd |-> BagSum(of(k), CostOf),
                       events |-> BagSum(of(k), EventsOf)] : k \in keys })

\* Mutant: ts <= @endTs.
liveEvents_ClosedEnd(evs, provider, startTs, endTs) ==
  {i \in DOMAIN evs : /\ evs[i].ts >= startTs
                      /\ evs[i].ts <= endTs
                      /\ (provider = "all" \/ evs[i].provider = provider)}

\* Mutant: the live query without the provider predicate.
liveEvents_NoProvider(evs, provider, startTs, endTs) ==
  {i \in DOMAIN evs : evs[i].ts >= startTs /\ evs[i].ts < endTs}

\* Mutant: the live range also takes the day before its start.
liveEvents_FromYesterday(evs, provider, startTs, endTs) ==
  {i \in DOMAIN evs : /\ evs[i].ts >= startTs - TicksPerDay
                      /\ evs[i].ts < endTs
                      /\ (provider = "all" \/ evs[i].provider = provider)}

\* The live events of a half-open range, optionally of one provider.
liveEvents(evs, provider, startTs, endTs) ==
  {i \in DOMAIN evs : /\ evs[i].ts >= startTs
                      /\ evs[i].ts < endTs
                      /\ providerSql(provider, evs[i])}

SumCost(evs, I) == SumFn([i \in I |-> evs[i].costUsd])

\* GET /admin/metrics/summary
summary(table, evs, t, rawDays, rawProvider) ==
  LET days == clampDays(rawDays)
      provider == normProvider(rawProvider)
      startDay == windowStartDay(t, days - 1)
      inWindow(r) == r.day >= startDay /\ providerSql(provider, r)
      rows == BagWhere(table, inWindow)
      totalRollupUsd == BagSum(rows, CostOf)
      live == liveEvents(evs, provider, todayStartTs(t), t)
      todaySoFarUsd == SumCost(evs, live)
  IN [ windowDays |-> days,
       provider |-> provider,
       startDay |-> startDay,
       today |-> isoDayUtc(t),
       todayStartTs |-> todayStartTs(t),
       totalRollupUsd |-> totalRollupUsd,
       todaySoFarUsd |-> todaySoFarUsd,
       totalUsd |-> totalRollupUsd + todaySoFarUsd,
       totalEvents |-> BagSum(rows, EventsOf) + Cardinality(live),
       byService |-> rollupByService(rows) ]

\* WHERE billingOwnerId = @billingOwnerId AND ts >= @startTs AND ts < @endTs
\* [AND provider = @provider]: a NULL owner equals nothing.
ownerRange(evs, billingOwnerId, provider, startTs, endTs) ==
  {i \in liveEvents(evs, IF provider = "" THEN "all" ELSE provider, startTs, endTs) :
     evs[i].billingOwnerId # NULL /\ evs[i].billingOwnerId = billingOwnerId}

\* usageStore.sumRange({billingOwnerId, provider, startTs, endTs})
sumRange(evs, billingOwnerId, provider, startTs, endTs) ==
  SumCost(evs, ownerRange(evs, billingOwnerId, provider, startTs, endTs))

\* Mutant: the per-subject sum without the owner filter.
sumRangeBySubject_AllOwners(evs, billingOwnerId, provider, startTs, endTs) ==
  LET I == liveEvents(evs, IF provider = "" THEN "all" ELSE provider, startTs, endTs)
      groups == {evs[i].subjectUserId : i \in I}
  IN SortDescByCost({ [ subjectUserId |-> IF g = NULL THEN "unknown" ELSE g,
                        grp |-> g,
                        costUsd |-> SumCost(evs, {i \in I : evs[i].subjectUserId = g}) ]
                      : g \in groups })

\* usageStore.sumRangeBySubject: one entry per subjectUserId group, cost descending.
sumRangeBySubject(evs, billingOwnerId, provider, startTs, endTs) ==
  LET I == ownerRange(evs, billingOwnerId, provider, startTs, endTs)
      groups == {evs[i].subjectUserId : i \in I}
  IN SortDescByCost({ [ subjectUserId |-> IF g = NULL THEN "unknown" ELSE g,
                        grp |-> g,
                        costUsd |-> SumCost(evs, {i \in I : evs[i].subjectUserId = g}) ]
                      : g \in groups })

\* usageStore.sumRangeByService: one entry per (provider, service), cost descending.
sumRangeByService(evs, billingOwnerId, provider, startTs, endTs) ==
  LET I == ownerRange(evs, billingOwnerId, provider, startTs, endTs)
      keys == {<<evs[i].provider, evs[i].service>> : i \in I}
      of(k) == {i \in I : evs[i].provider = k[1] /\ evs[i].service = k[2]}
  IN SortDescByCost({ [ provider |-> k[1], service |-> k[2],
                        costUsd |-> SumCost(evs, of(k)),
                        events |-> Cardinality(of(k)) ] : k \in keys })

\* usageStore.query({billingOwnerId, provider, limit}): ORDER BY ts DESC LIMIT @lim
RECURSIVE SortDescByTs(_)
SortDescByTs(S) ==
  IF S = {} THEN << >>
  ELSE LET m == CHOOSE x \in S : \A y \in S : x.ts > y.ts \/ (x.ts = y.ts /\ x.id >= y.id)
       IN <<m>> \o SortDescByTs(S \ {m})

\* Mutant: the caller's limit taken as given.
queryLimit_Trusted(limit) == limit

\* Math.max(1, Math.min(Number(limit) || 200, 1000))
queryLimit(limit) == Max(1, Min(IF limit = 0 THEN 200 ELSE limit, 1000))

usageStoreQuery(evs, billingOwnerId, provider, limit) ==
  LET lim == queryLimit(limit)
      hit == {evs[i] : i \in {j \in DOMAIN evs :
                 /\ (billingOwnerId = "" \/ evs[j].billingOwnerId = billingOwnerId)
                 /\ (provider = "" \/ evs[j].provider = provider)}}
      sorted == SortDescByTs(hit)
  IN SubSeq(sorted, 1, Min(lim, Len(sorted)))

\* Mutant: the two distinct counts added.
distinctOverall_Added(rollupSubjects, todaySubjects) ==
  Cardinality(rollupSubjects) + Cardinality(todaySubjects)

\* SELECT COUNT(DISTINCT subjectUserId) FROM (SELECT ... daily_usage_rollups
\* UNION SELECT ... usage_events)
distinctOverall(rollupSubjects, todaySubjects) ==
  Cardinality(rollupSubjects \cup todaySubjects)

\* GET /admin/metrics/cost-per-user
costPerUser(table, evs, t, rawDays, rawProvider) ==
  LET days == clampDays(rawDays)
      provider == normProvider(rawProvider)
      startDay == windowStartDay(t, days - 1)
      inWindow(r) == r.day >= startDay /\ providerSql(provider, r)
      rows == BagWhere(table, inWindow)
      totalRollupUsd == BagSum(rows, CostOf)
      rollupSubjects == {r.subjectUserId : r \in BagToSet(rows)} \ {NULL, ""}
      todaySoFarUsd == sumRange(evs, "", provider, todayStartTs(t), t)
      live == liveEvents(evs, provider, todayStartTs(t), t)
      todaySubjects == {evs[i].subjectUserId : i \in live} \ {NULL, ""}
      activeUsersRollup == Cardinality(rollupSubjects)
      activeUsersToday == Cardinality(todaySubjects)
      overall == distinctOverall(rollupSubjects, todaySubjects)
      activeUsers == IF overall # 0 THEN overall
                     ELSE activeUsersRollup + activeUsersToday
      totalUsd == totalRollupUsd + todaySoFarUsd
  IN [ windowDays |-> days,
       provider |-> provider,
       totalUsd |-> totalUsd,
       activeUsers |-> activeUsers,
       costPerActiveUserUsd |-> IF activeUsers > 0 THEN <<totalUsd, activeUsers>>
                                ELSE <<0, 1>> ]

\* Mutant: the series without GROUP BY day, one entry per rollup row.
byDay_NoGroup(table, t, rawDays, rawProvider) ==
  LET days == clampDays(rawDays)
      provider == IF rawProvider = "" THEN "all" ELSE rawProvider
      startDay == windowStartDay(t, days - 1)
      inWindow(r) == r.day >= startDay /\ providerSql(provider, r)
      rows == BagWhere(table, inWindow)
  IN [ windowDays |-> days,
       provider |-> provider,
       series |-> SortAscByDay({ [ day |-> r.day,
                                   costUsd |-> r.costUsd,
                                   events |-> r.events,
                                   activeUsers |-> 0 ]
                                 : r \in BagToSet(rows) }) ]

\* GET /admin/metrics/by-day (the provider parameter is neither trimmed nor lowered)
byDay(table, t, rawDays, rawProvider) ==
  LET days == clampDays(rawDays)
      provider == IF rawProvider = "" THEN "all" ELSE rawProvider
      startDay == windowStartDay(t, days - 1)
      inWindow(r) == r.day >= startDay /\ providerSql(provider, r)
      rows == BagWhere(table, inWindow)
      ofDay(d) == LET mine(r) == r.day = d IN BagWhere(rows, mine)
  IN [ windowDays |-> days,
       provider |-> provider,
       series |-> SortAscByDay({ [ day |-> d,
                                   costUsd |-> BagSum(ofDay(d), CostOf),
                                   events |-> BagSum(ofDay(d), EventsOf),
                                   activeUsers |-> 0 ]
                                 : d \in {r.day : r \in BagToSet(rows)} }) ]

\* GET /v1/group-usage: the billing owner the request is answered for.
groupBillingOwner(req) ==
  IF OrNull(req.billingOwnerId) # NULL THEN req.billingOwnerId
  ELSE IF OrNull(req.userId) # NULL THEN req.userId ELSE ""

SeqToSet(q) == {q[i] : i \in DOMAIN q}

\* GET /v1/group-usage
groupUsage(table, evs, t, req, rawDays, rawProvider) ==
  LET billingOwnerId == groupBillingOwner(req)
      days == clampDays(rawDays)
      provider == normProvider(rawProvider)
      startDay == windowStartDay(t, days)
      inWindow(r) == /\ r.billingOwnerId # NULL
                     /\ r.billingOwnerId = billingOwnerId
                     /\ r.day >= startDay
                     /\ providerSql(provider, r)
      rows == BagWhere(table, inWindow)
      totalCostUsd == BagSum(rows, CostOf)
      \* bySubjectRows, cost descending; a later row overwrites an earlier one
      \* stored under the same object key.
      subjGroups == {r.subjectUserId : r \in BagToSet(rows)}
      subjCost(g) == LET mine(r) == r.subjectUserId = g IN BagSum(BagWhere(rows, mine), CostOf)
      jsKey(g) == IF g = NULL \/ g = "" THEN "unknown" ELSE g
      lastOf(k) == CHOOSE g \in subjGroups :
                     /\ jsKey(g) = k
                     /\ \A h \in subjGroups : jsKey(h) = k => subjCost(g) <= subjCost(h)
      histBySubject == [k \in {jsKey(g) : g \in subjGroups} |-> subjCost(lastOf(k))]
      histByService == rollupByService(rows)
      todaySoFarUsd == sumRange(evs, billingOwnerId, provider, todayStartTs(t), t)
      todayBySubject == sumRangeBySubject(evs, billingOwnerId, provider, todayStartTs(t), t)
      todayByService == sumRangeByService(evs, billingOwnerId, provider, todayStartTs(t), t)
      todayKeys == {todayBySubject[i].subjectUserId : i \in DOMAIN todayBySubject}
      todayAdd(k) == SumFn([i \in {j \in DOMAIN todayBySubject :
                                     todayBySubject[j].subjectUserId = k}
                            |-> todayBySubject[i].costUsd])
      bySubjectUserId ==
        [k \in (DOMAIN histBySubject) \cup todayKeys |->
           (IF k \in DOMAIN histBySubject THEN histBySubject[k] ELSE 0) + todayAdd(k)]
      svcKeys == {<<x.provider, x.service>> : x \in SeqToSet(histByService)}
                   \cup {<<x.provider, x.service>> : x \in SeqToSet(todayByService)}
      svcPart(q, k, f(_)) ==
        SumFn([i \in {j \in DOMAIN q : q[j].provider = k[1] /\ q[j].service = k[2]}
               |-> f(q[i])])
      mergedByService ==
        SortDescByCost({ [ provider |-> k[1], service |-> k[2],
                           costUsd |-> svcPart(histByService, k, CostOf)
                                         + svcPart(todayByService, k, CostOf),
                           events |-> svcPart(histByService, k, EventsOf)
                                        + svcPart(todayByService, k, EventsOf) ]
                         : k \in svcKeys })
  IN IF billingOwnerId = ""
     THEN [status |-> 400, error |-> "missing_billing_owner"]
     ELSE [ status |-> 200,
            billingOwnerId |-> billingOwnerId,
            days |-> days,
            provider |-> provider,
            totalCostUsd |-> totalCostUsd + todaySoFarUsd,
            todaySoFarUsd |-> todaySoFarUsd,
            todayStartTs |-> todayStartTs(t),
            bySubjectUserId |-> bySubjectUserId,
            byService |-> mergedByService ]

\* ---------------------------------------------------------------- actions
NoRes == [op |-> "none"]

NoTx == [open |-> FALSE]

\* Handlers are synchronous and run to completion on one thread: nothing else
\* runs while a rollup run is on the stack.
Idle == ~tx.open

Init ==
  /\ now = 0
  /\ events = << >>
  /\ rollups = EmptyBag
  /\ timer = "unset"
  /\ tx = NoTx
  /\ cache = {}
  /\ res = NoRes

\* Time passes; the response of the last operation has been delivered.
Advance ==
  /\ Idle
  /\ now < MaxNow
  /\ now' = now + 1
  /\ res' = NoRes
  /\ UNCHANGED <<events, rollups, timer, tx, cache>>

\* A producer meters one successful external call.
Emit(req, charge, subject) ==
  /\ timer = "armed"
  /\ Idle
  /\ Len(events) < MaxEvents
  /\ LET evt == [provider |-> charge.provider, service |-> charge.service,
                 subjectUserId |-> subject, units |-> charge.units,
                 unitCostUsd |-> charge.unitCostUsd, costUsd |-> charge.costUsd]
         record == emitUsageEvent(req, evt, events, now)
     IN /\ events' = usageStoreInsert(events, record)
        /\ res' = [op |-> "emit", record |-> record]
  /\ UNCHANGED <<now, rollups, timer, tx, cache>>

RollupRes(out, point, again) ==
  IF point = NoFail
  THEN [op |-> "rollup", day |-> out.ret.day, rows |-> out.ret.rows, again |-> again]
  ELSE [op |-> "rollupError", day |-> out.ret.day, done |-> point[1]]

\* The scheduler's call runDailyRollup(): no day given.
SchedulerRun(point) ==
  LET day == defaultRollupDay(now)
      out == runDailyRollup(rollups, events, day, point)
      again == res.op = "rollup" /\ res.day = day
  IN /\ Idle
     /\ rollups' = out.table
     /\ res' = RollupRes(out, point, again)
     /\ UNCHANGED <<now, events, tx, cache>>

\* Mutant: the startup run outside a try block: its failure ends the process
\* before setInterval is reached.
Startup_Uncaught ==
  /\ timer = "unset"
  /\ \E point \in {NoFail} \cup FailPoints(events, defaultRollupDay(now)) :
       /\ SchedulerRun(point)
       /\ timer' = IF point = NoFail THEN "armed" ELSE "down"

\* Mutant: the startup run catches up on every day before today.
RECURSIVE backfill(_, _, _)
backfill(table, evs, day) ==
  IF day < 0 THEN table
  ELSE runDailyRollup(backfill(table, evs, day - 1), evs, day, NoFail).table

Startup_Backfill ==
  /\ timer = "unset"
  /\ Idle
  /\ rollups' = backfill(rollups, events, defaultRollupDay(now))
  /\ res' = [op |-> "rollup", day |-> defaultRollupDay(now),
             rows |-> runDailyRollup(rollups, events, defaultRollupDay(now), NoFail).ret.rows,
             again |-> FALSE]
  /\ timer' = "armed"
  /\ UNCHANGED <<now, events, tx, cache>>

\* try { runDailyRollup() } catch {...}; setInterval(...)
Startup ==
  /\ timer = "unset"
  /\ \E point \in {NoFail} \cup FailPoints(events, defaultRollupDay(now)) :
       SchedulerRun(point)
  /\ timer' = "armed"

\* The hourly callback: try { runDailyRollup() } catch {...}
HourlyTick ==
  /\ timer = "armed"
  /\ SchedulerRun(NoFail)
  /\ UNCHANGED timer

HourlyTickFails ==
  /\ timer = "armed"
  /\ \E point \in FailPoints(events, defaultRollupDay(now)) : SchedulerRun(point)
  /\ UNCHANGED timer

\* Mutant: a read endpoint that can run between two statements of a rollup
\* run (a run that awaits inside its transaction).
Served_Interleaved(op) ==
  /\ timer = "armed"
  /\ res' = [op |-> op, status |-> 200]
  /\ UNCHANGED <<now, events, rollups, timer, tx, cache>>

\* Mutant: a read endpoint that refreshes yesterday's rollup before answering.
Served_Refreshing(op) ==
  /\ timer = "armed"
  /\ rollups' = runDailyRollup(rollups, events, defaultRollupDay(now), NoFail).table
  /\ res' = [op |-> op, status |-> 200]
  /\ UNCHANGED <<now, events, timer, tx, cache>>

\* A read endpoint is served.  The body it returns is a function of the two
\* tables, the clock and the request (summary, costPerUser, byDay, groupUsage,
\* usageStoreQuery above); res records which endpoint answered.
Served(op) ==
  /\ timer = "armed"
  /\ Idle
  /\ res' = [op |-> op, status |-> 200]
  /\ UNCHANGED <<now, events, rollups, timer, tx, cache>>

Summary == Served("summary")

CostPerUser == Served("costPerUser")

ByDay == Served("byDay")

GroupUsage == Served("groupUsage")

Usage == Served("usage")

QueryOps == {"summary", "costPerUser", "byDay", "groupUsage", "usage"}

\* The write path: the clock, the producers and the rollup scheduler.
NextWrite ==
  \/ Advance
  \/ \E req \in Requests, charge \in Charges, subject \in SubjectInputs :
       Emit(req, charge, subject)
  \/ Startup
  \/ HourlyTick
  \/ HourlyTickFails

Next ==
  \/ NextWrite
  \/ Summary
  \/ CostPerUser
  \/ ByDay
  \/ GroupUsage
  \/ Usage

\* The whole program.
Spec == Init /\ [][Next]_vars

\* The hourly rollup run statement by statement, on the connection the read
\* endpoints use: rollups is what that connection reads, tx.before the state
\* at BEGIN, to which a failure rolls back.
TxBegin ==
  /\ timer = "armed"
  /\ Idle
  /\ LET day == defaultRollupDay(now)
         range == dayRangeUtc(day)
         items == rollupSelectStmt(events, day, range.startIso, range.endIso)
     IN /\ tx' = [open |-> TRUE, day |-> day, items |-> items, done |-> 0,
                  before |-> rollups]
        /\ rollups' = txBody(rollups, day, items, 0)
  /\ res' = NoRes
  /\ UNCHANGED <<now, events, timer, cache>>

TxInsert ==
  /\ tx.open
  /\ tx.done < Len(tx.items)
  /\ rollups' = rollupUpsertStmt(rollups, tx.items[tx.done + 1])
  /\ tx' = [tx EXCEPT !.done = @ + 1]
  /\ UNCHANGED <<now, events, timer, res, cache>>

TxCommit ==
  /\ tx.open
  /\ tx.done = Len(tx.items)
  /\ tx' = NoTx
  /\ res' = [op |-> "rollup", day |-> tx.day, rows |-> Len(tx.items), again |-> FALSE]
  /\ UNCHANGED <<now, events, rollups, timer, cache>>

TxAbort ==
  /\ tx.open
  /\ rollups' = runTransaction(tx.before, tx.day, tx.items, <<tx.done>>)
  /\ tx' = NoTx
  /\ res' = [op |-> "rollupError", day |-> tx.day, done |-> tx.done]
  /\ UNCHANGED <<now, events, timer, cache>>

NextTx ==
  \/ Advance
  \/ \E req \in Requests, charge \in Charges, subject \in SubjectInputs :
       Emit(req, charge, subject)
  \/ Startup
  \/ TxBegin
  \/ TxInsert
  \/ TxCommit
  \/ TxAbort
  \/ Summary
  \/ CostPerUser
  \/ ByDay
  \/ GroupUsage
  \/ Usage

\* The program with the hourly run taken one statement at a time.
SpecTx == Init /\ [][NextTx]_vars

\* The write path alone; the read endpoints change neither table nor clock.
SpecWrite == Init /\ [][NextWrite]_vars

\* Requests whose user id is blank (userId=%20): String(...).trim() leaves
\* ctx.userId empty, and ctx.billingOwnerId is String(userId).
KeyRequests ==
  { [requestId |-> "r1", userId |-> "u1", billingOwnerId |-> "u1", mode |-> "family"],
    [requestId |-> "r3", userId |-> "", billingOwnerId |-> "", mode |-> "individual"] }

\* The write path with callers that have no user id.
NextKeys ==
  \/ Advance
  \/ \E req \in KeyRequests, charge \in Charges, subject \in SubjectInputs :
       Emit(req, charge, subject)
  \/ Startup
  \/ HourlyTick
  \/ HourlyTickFails

SpecKeys == Init /\ [][NextKeys]_vars

\* Subjects of a family whose events carry no subject (places calls of a
\* caller without user id, rows older than the subjectUserId column) and
\* which has a member whose id is the word "unknown" (memberId is whatever
\* the client sends).
GroupSubjects == {NULL, "unknown"}

\* The write path of such a family, and its group-usage page.
NextGroup ==
  \/ Advance
  \/ \E req \in Requests, charge \in Charges, subject \in GroupSubjects :
       Emit(req, charge, subject)
  \/ Startup
  \/ HourlyTick
  \/ GroupUsage

SpecGroup == Init /\ [][NextGroup]_vars

\* The process ends (deploy, crash, host restart): the interval and the
\* in-memory cache are gone, both tables stay on disk.
Crash ==
  /\ timer = "armed"
  /\ Idle
  /\ timer' = "unset"
  /\ cache' = {}
  /\ res' = [op |-> "down"]
  /\ UNCHANGED <<now, events, rollups, tx>>

\* Time passes while the process is down.
Downtime ==
  /\ timer = "unset"
  /\ now < MaxOutageNow
  /\ now' = now + 1
  /\ res' = NoRes
  /\ UNCHANGED <<events, rollups, timer, tx, cache>>

\* Time passes while the process is up: the interval has fired and a run
\* has completed at the current instant.
UpAdvance ==
  /\ timer = "armed"
  /\ Idle
  /\ res.op = "rollup"
  /\ now < MaxOutageNow
  /\ now' = now + 1
  /\ res' = NoRes
  /\ UNCHANGED <<events, rollups, timer, tx, cache>>

NextOutage ==
  \/ UpAdvance
  \/ Downtime
  \/ Crash
  \/ \E req \in Requests, charge \in Charges, subject \in SubjectInputs :
       Emit(req, charge, subject)
  \/ Startup
  \/ HourlyTick
  \/ HourlyTickFails

\* The write path of a process that is stopped and started again: whenever
\* it is up the interval keeps firing, so a run completes again and again,
\* and time passes.
SpecOutage ==
  /\ Init
  /\ [][NextOutage]_vars
  /\ []<>(res.op = "rollup")
  /\ SF_vars(UpAdvance)

\* A read endpoint whose statement throws.  Summary, cost-per-user, by-day and
\* group-usage catch and answer 500 with their own error; the events listing
\* and /v1/usage have no try block, so the throw reaches the error middleware.
queryErrorResponse(op) ==
  [ op |-> op,
    queryFailed |-> TRUE,
    status |-> 500,
    error |-> CASE op = "summary" -> "Failed to compute summary"
                [] op = "costPerUser" -> "Failed to compute cost-per-user"
                [] op = "byDay" -> "Failed to compute by-day series"
                [] op = "groupUsage" -> "group_usage_error"
                [] OTHER -> "internal_error" ]

ServedFails(op) ==
  /\ timer = "armed"
  /\ Idle
  /\ res' = queryErrorResponse(op)
  /\ UNCHANGED <<now, events, rollups, timer, tx, cache>>

DashboardOps == {"summary", "costPerUser", "byDay", "events", "groupUsage"}

NextQueryFaults ==
  \/ NextWrite
  \/ \E op \in DashboardOps \cup {"usage"} : ServedFails(op)

\* The write path with read endpoints whose statements throw.
SpecQueryFaults == Init /\ [][NextQueryFaults]_vars

\* The scheduler ticking hourly while the process runs: an instant of the
\* model's clock spans many ticks of the timer, so the clock moves on only
\* after a run of the rollup has completed at the current instant.
AdvanceAfterTick ==
  /\ res.op = "rollup"
  /\ Advance

NextLive ==
  \/ AdvanceAfterTick
  \/ \E req \in Requests, charge \in Charges, subject \in SubjectInputs :
       Emit(req, charge, subject)
  \/ Startup
  \/ HourlyTick
  \/ HourlyTickFails

\* The write path of a process that stays up: the interval fires many times
\* within every instant of the clock, so a run of the rollup completes again
\* and again (a run that throws is followed by the next tick), and time passes.
SpecLive ==
  /\ Init
  /\ [][NextLive]_vars
  /\ []<>(res.op = "rollup")
  /\ SF_vars(AdvanceAfterTick)

\* ---------------------------------------------------------------- producers
\* NodeCache({stdTTL: one day}): an entry is served until its expiry has passed.
cacheGet(c, key, t) == \E x \in c : x.key = key /\ x.exp >= t

cacheSet(c, key, t) ==
  {x \in c : x.key # key} \cup {[key |-> key, exp |-> t + TicksPerDay]}

\* How the paid external call of a request ends: it throws, it answers with
\* a non-OK status, it succeeds with a body the handler cannot parse, or it
\* succeeds.
OpenAIOutcomes == {"throws", "okUnparsable", "ok"}
PlacesOutcomes == {"throws", "notOk", "okUnparsable", "ok"}

\* Mutant: a failed insert is swallowed.
meter_Swallowed(req, evt, evs, ts, insertFails) ==
  IF insertFails
  THEN [threw |-> FALSE, events |-> evs]
  ELSE [threw |-> FALSE,
        events |-> usageStoreInsert(evs, emitUsageEvent(req, evt, evs, ts))]

\* emitUsageEvent(req, evt) inside a handler's try block: usageInsertStmt.run
\* either stores the record or throws.
meter(req, evt, evs, ts, insertFails) ==
  IF insertFails
  THEN [threw |-> TRUE, events |-> evs]
  ELSE [threw |-> FALSE,
        events |-> usageStoreInsert(evs, emitUsageEvent(req, evt, evs, ts))]

\* String(getMemberIdForScan(req) || "u_self")
getMemberIdForScan(raw) == IF raw = "" \/ raw = NULL THEN "u_self" ELSE raw

ProducerRes(op, status, external, insertFailed, cached) ==
  [op |-> op, status |-> status, external |-> external,
   insertFailed |-> insertFailed, cached |-> cached]

\* Mutant: the result is cached before the event is stored.
Scan_CacheFirst(req, rawMember, external, insertFails) ==
  /\ timer = "armed"
  /\ Idle
  /\ Len(events) < MaxEvents
  /\ LET memberId == getMemberIdForScan(rawMember)
         cacheKey == <<"scan", memberId>>
         openai == CHOOSE c \in Charges : c.provider = "openai"
         hitEvt == [provider |-> "openai", service |-> "openai_scan_vision",
                    subjectUserId |-> memberId, units |-> 0,
                    unitCostUsd |-> 0, costUsd |-> 0]
         missEvt == [provider |-> "openai", service |-> "openai_scan_vision",
                     subjectUserId |-> memberId, units |-> 1,
                     unitCostUsd |-> openai.costUsd, costUsd |-> openai.costUsd]
     IN IF cacheGet(cache, cacheKey, now)
        THEN LET out == meter(req, hitEvt, events, now, insertFails)
             IN /\ external = "none"
                /\ events' = out.events
                /\ res' = ProducerRes("scan", IF out.threw THEN 500 ELSE 200,
                                      external, insertFails, TRUE)
                /\ UNCHANGED cache
        ELSE IF external \in {"throws", "okUnparsable"}
        THEN /\ ~insertFails
             /\ res' = ProducerRes("scan", 500, external, FALSE, FALSE)
             /\ UNCHANGED <<events, cache>>
        ELSE LET out == meter(req, missEvt, events, now, insertFails)
             IN /\ external = "ok"
                /\ events' = out.events
                /\ cache' = cacheSet(cache, cacheKey, now)
                /\ res' = ProducerRes("scan", IF out.threw THEN 500 ELSE 200,
                                      external, insertFails, FALSE)
  /\ UNCHANGED <<now, rollups, timer, tx>>

\* POST /v1/scans, from the cache lookup on.
Scan(req, rawMember, external, insertFails) ==
  /\ timer = "armed"
  /\ Idle
  /\ Len(events) < MaxEvents
  /\ LET memberId == getMemberIdForScan(rawMember)
         cacheKey == <<"scan", memberId>>
         openai == CHOOSE c \in Charges : c.provider = "openai"
         hitEvt == [provider |-> "openai", service |-> "openai_scan_vision",
                    subjectUserId |-> memberId, units |-> 0,
                    unitCostUsd |-> 0, costUsd |-> 0]
         missEvt == [provider |-> "openai", service |-> "openai_scan_vision",
                     subjectUserId |-> memberId, units |-> 1,
                     unitCostUsd |-> openai.costUsd, costUsd |-> openai.costUsd]
     IN IF cacheGet(cache, cacheKey, now)
        THEN LET out == meter(req, hitEvt, events, now, insertFails)
             IN /\ external = "none"
                /\ events' = out.events
                /\ res' = ProducerRes("scan", IF out.threw THEN 500 ELSE 200,
                                      external, insertFails, TRUE)
                /\ UNCHANGED cache
        ELSE IF external \in {"throws", "okUnparsable"}
        THEN /\ ~insertFails
             /\ res' = ProducerRes("scan", 500, external, FALSE, FALSE)
             /\ UNCHANGED <<events, cache>>
        ELSE LET out == meter(req, missEvt, events, now, insertFails)
             IN /\ external = "ok"
                /\ events' = out.events
                /\ cache' = IF out.threw THEN cache ELSE cacheSet(cache, cacheKey, now)
                /\ res' = ProducerRes("scan", IF out.threw THEN 500 ELSE 200,
                                      external, insertFails, FALSE)
  /\ UNCHANGED <<now, rollups, timer, tx>>

\* Mutant: the call is metered before its status is looked at.
places_MeterFirst(op, service, req, external, insertFails) ==
  /\ timer = "armed"
  /\ Idle
  /\ Len(events) < MaxEvents
  /\ LET google == CHOOSE c \in Charges : c.provider = "google"
         evt == [provider |-> "google", service |-> service,
                 subjectUserId |-> req.userId, units |-> 1,
                 unitCostUsd |-> google.costUsd, costUsd |-> google.costUsd]
         out == meter(req, evt, events, now, insertFails)
     IN IF external = "throws"
        THEN /\ ~insertFails
             /\ res' = ProducerRes(op, 500, external, FALSE, FALSE)
             /\ UNCHANGED events
        ELSE /\ events' = out.events
             /\ res' = ProducerRes(op, IF out.threw \/ external = "okUnparsable" THEN 500
                                       ELSE IF external = "notOk" THEN 502 ELSE 200,
                                   external, insertFails, FALSE)
  /\ UNCHANGED <<now, rollups, timer, tx, cache>>

\* handlePlacesNearby / handlePlacesSearch, from the answer of fetch on.
places(op, service, req, external, insertFails) ==
  /\ timer = "armed"
  /\ Idle
  /\ Len(events) < MaxEvents
  /\ LET google == CHOOSE c \in Charges : c.provider = "google"
         evt == [provider |-> "google", service |-> service,
                 subjectUserId |-> req.userId, units |-> 1,
                 unitCostUsd |-> google.costUsd, costUsd |-> google.costUsd]
         out == meter(req, evt, events, now, insertFails)
     IN IF external \in {"throws", "okUnparsable"}
        THEN /\ ~insertFails
             /\ res' = ProducerRes(op, 500, external, FALSE, FALSE)
             /\ UNCHANGED events
        ELSE IF external = "notOk"
        THEN /\ ~insertFails
             /\ res' = ProducerRes(op, 502, external, FALSE, FALSE)
             /\ UNCHANGED events
        ELSE /\ events' = out.events
             /\ res' = ProducerRes(op, IF out.threw THEN 500 ELSE 200,
                                   external, insertFails, FALSE)
  /\ UNCHANGED <<now, rollups, timer, tx, cache>>

PlacesNearby(req, external, insertFails) ==
  places("placesNearby", "google_places_searchNearby", req, external, insertFails)

PlacesSearch(req, external, insertFails) ==
  places("placesSearch", "google_places_searchText", req, external, insertFails)

\* POST /api/menu/extract-upload and POST /api/menu/rate, from the cache
\* lookup on: neither handler calls emitUsageEvent.
menu(op, external) ==
  /\ timer = "armed"
  /\ Idle
  /\ IF cacheGet(cache, <<op, "upload">>, now)
     THEN /\ external = "none"
          /\ res' = ProducerRes(op, 200, external, FALSE, TRUE)
          /\ UNCHANGED cache
     ELSE IF external \in {"throws", "okUnparsable"}
     THEN /\ res' = ProducerRes(op, 500, external, FALSE, FALSE)
          /\ UNCHANGED cache
     ELSE /\ external = "ok"
          /\ cache' = cacheSet(cache, <<op, "upload">>, now)
          /\ res' = ProducerRes(op, 200, external, FALSE, FALSE)
  /\ UNCHANGED <<now, events, rollups, timer, tx>>

MenuExtractUpload(external) == menu("menuExtractUpload", external)

MenuRate(external) == menu("menuRate", external)

\* The handlers that meter, and all the handlers that make a paid call.
MeteringOps == {"scan", "placesNearby", "placesSearch"}
PaidOps == MeteringOps \cup {"menuExtractUpload", "menuRate"}

NextProducers ==
  \/ Advance
  \/ Startup
  \/ \E req \in Requests, rawMember \in SubjectInputs,
        external \in {"none"} \cup OpenAIOutcomes, insertFails \in BOOLEAN :
       Scan(req, rawMember, external, insertFails)
  \/ \E req \in Requests, external \in PlacesOutcomes, insertFails \in BOOLEAN :
       PlacesNearby(req, external, insertFails)
  \/ \E req \in Requests, external \in PlacesOutcomes, insertFails \in BOOLEAN :
       PlacesSearch(req, external, insertFails)
  \/ \E external \in {"none"} \cup OpenAIOutcomes : MenuExtractUpload(external)
  \/ \E external \in {"none"} \cup OpenAIOutcomes : MenuRate(external)

\* The producers' handlers with the clock and the server's start.
SpecProducers == Init /\ [][NextProducers]_vars

\* ---------------------------------------------------------------- cost calculator
\* Model ids a caller may pass, and the usage an OpenAI response may report
\* (total_tokens -1 stands for a missing field).
ModelInputs == {"gpt-4.1-mini", "gpt-4.1-mini-2025-04-14", "gpt-4o", NULL}

UsageInputs ==
  [input_tokens : {0, 1000}, output_tokens : {0, 1000}, total_tokens : {-1, 2000}]

\* RATES_PER_1M[model] || (String(model).startsWith("gpt-4.1-mini") ? ... : null),
\* in micro-dollars per 5 tokens: input 0.80 and output 3.20 dollars per million;
\* << >> when the model has no rates.
ratesFor(model) ==
  IF model \in {"gpt-4.1-mini", "gpt-4.1-mini-2025-04-14"}
  THEN <<[input |-> 4, output |-> 16]>>
  ELSE << >>

\* Mutant: a model without rates is priced at the gpt-4.1-mini rates.
computeOpenAICostUsdFromUsage_DefaultRates(model, usage) ==
  LET rates == [input |-> 4, output |-> 16]
      inputTokens == usage.input_tokens
      outputTokens == usage.output_tokens
      totalTokens == IF usage.total_tokens < 0 THEN inputTokens + outputTokens
                     ELSE usage.total_tokens
      fifths == inputTokens * rates.input + outputTokens * rates.output
  IN [ costUsd |-> (2 * fifths + 5) \div 10,
       inputTokens |-> inputTokens,
       outputTokens |-> outputTokens,
       totalTokens |-> totalTokens ]

\* computeOpenAICostUsdFromUsage({model, usage}); costUsd is rounded to six
\* decimals of a dollar, that is to whole micro-dollars.
computeOpenAICostUsdFromUsage(model, usage) ==
  LET rates == ratesFor(model)
      inputTokens == usage.input_tokens
      outputTokens == usage.output_tokens
      totalTokens == IF usage.total_tokens < 0 THEN inputTokens + outputTokens
                     ELSE usage.total_tokens
      fifths == inputTokens * rates[1].input + outputTokens * rates[1].output
  IN IF rates = << >>
     THEN [costUsd |-> 0, inputTokens |-> 0, outputTokens |-> 0, totalTokens |-> 0]
     ELSE [ costUsd |-> (2 * fifths + 5) \div 10,
            inputTokens |-> inputTokens,
            outputTokens |-> outputTokens,
            totalTokens |-> totalTokens ]

\* POST /v1/scans from the answer of OpenAI on (cost, emit, response), with
\* the model id and the reported usage as inputs.
ScanPriced(req, model, usage) ==
  /\ timer = "armed"
  /\ Idle
  /\ Len(events) < MaxEvents
  /\ LET cost == computeOpenAICostUsdFromUsage(model, usage)
         evt == [provider |-> "openai", service |-> "openai_scan_vision",
                 subjectUserId |-> getMemberIdForScan(""), units |-> 1,
                 unitCostUsd |-> cost.costUsd, costUsd |-> cost.costUsd]
         out == meter(req, evt, events, now, FALSE)
     IN /\ events' = out.events
        /\ res' = [op |-> "scanPriced", status |-> 200, model |-> model,
                   usage |-> usage, cost |-> cost]
  /\ UNCHANGED <<now, rollups, timer, tx, cache>>

NextCost ==
  \/ Advance
  \/ Startup
  \/ \E req \in Requests, model \in ModelInputs, usage \in UsageInputs :
       ScanPriced(req, model, usage)

\* The cost calculator under the scan handler.
SpecCost == Init /\ [][NextCost]_vars

\* The store and the engine called directly, as their contracts allow:
\* usageStore.insert with a record of any timestamp up to now, and
\* runDailyRollup(dayStr) with any day up to today.
ApiInsert(charge, ts) ==
  /\ timer = "armed"
  /\ Idle
  /\ Len(events) < MaxEvents
  /\ LET req == CHOOSE r \in Requests : r.requestId = "r1"
         evt == [provider |-> charge.provider, service |-> charge.service,
                 subjectUserId |-> "m1", units |-> charge.units,
                 unitCostUsd |-> charge.unitCostUsd, costUsd |-> charge.costUsd]
         record == [emitUsageEvent(req, evt, events, now) EXCEPT !.ts = ts]
     IN /\ events' = usageStoreInsert(events, record)
        /\ res' = [op |-> "insert", record |-> record]
  /\ UNCHANGED <<now, rollups, timer, tx, cache>>

ApiRollup(day) ==
  /\ timer = "armed"
  /\ Idle
  /\ LET out == runDailyRollup(rollups, events, day, NoFail)
     IN /\ rollups' = out.table
        /\ res' = RollupRes(out, NoFail, FALSE)
  /\ UNCHANGED <<now, events, timer, tx, cache>>

NextApi ==
  \/ Advance
  \/ Startup
  \/ \E charge \in Charges, ts \in 0 .. MaxNow : ts <= now /\ ApiInsert(charge, ts)
  \/ \E day \in 0 .. isoDayUtc(MaxNow) : day <= isoDayUtc(now) /\ ApiRollup(day)
  \/ Summary

SpecApi == Init /\ [][NextApi]_vars

\* ---------------------------------------------------------------- properties
RowKey(r) ==
  [ billingOwnerId |-> r.billingOwnerId, actorUserId |-> r.actorUserId,
    subjectUserId |-> r.subjectUserId, provider |-> r.provider,
    service |-> r.service ]

RowsOfDay(table, day) ==
  LET ofDay(r) == r.day = day IN BagWhere(table, ofDay)

\* The events of day D: startOfDay(D) <= ts < startOfDay(D) + 24h.
EventsOfDay(D) ==
  {i \in DOMAIN events :
     events[i].ts >= D * TicksPerDay /\ events[i].ts < D * TicksPerDay + TicksPerDay}

\* C1: after runDailyRollup(D) completes, every key with an event on day D has
\* exactly one row of day D, holding the count of those events and the sums of
\* their units and costUsd, and a key with no event on day D has no row.
C1_RollupMatchesEvents ==
  res.op = "rollup" =>
    LET rows == RowsOfDay(rollups, res.day)
        keys == {GroupKey(events[i]) : i \in EventsOfDay(res.day)}
        of(k) == {i \in EventsOfDay(res.day) : GroupKey(events[i]) = k}
    IN /\ \A r \in BagToSet(rows) : rows[r] = 1 /\ RowKey(r) \in keys
       /\ \A k \in keys :
            /\ Cardinality({r \in BagToSet(rows) : RowKey(r) = k}) = 1
            /\ \A r \in BagToSet(rows) :
                 RowKey(r) = k =>
                   /\ r.events = Cardinality(of(k))
                   /\ r.units = SumFn([i \in of(k) |-> events[i].units])
                   /\ r.costUsd = SumFn([i \in of(k) |-> events[i].costUsd])

C1_Witness ==
  /\ res.op = "rollup"
  /\ res.rows >= 1
  /\ \E r \in BagToSet(RowsOfDay(rollups, res.day)) : r.events >= 2

\* C2: a second runDailyRollup(D) right after a first one, with no event
\* inserted in between, leaves the rollup table as the first run left it and
\* returns the same {day, rows}.
C2_Idempotent ==
  [][ (res.op = "rollup" /\ res'.op = "rollup" /\ res'.day = res.day
         /\ events' = events)
      => (rollups' = rollups /\ res'.rows = res.rows) ]_vars

C2_Witness ==
  /\ res.op = "rollup"
  /\ res.again
  /\ res.rows >= 1
  /\ \E r \in BagToSet(RowsOfDay(rollups, res.day)) : r.subjectUserId = NULL

\* The events a set of rollup rows accounts for: those of a row's day and key.
CoveredBy(rows) ==
  {i \in DOMAIN events :
     \E r \in BagToSet(rows) :
       r.day = isoDayUtc(events[i].ts) /\ RowKey(r) = GroupKey(events[i])}

\* The rollup rows the summary query sums for days and provider.
SummaryRows(rawDays, rawProvider) ==
  LET inWindow(r) ==
        /\ r.day >= isoDayUtc(now) - (clampDays(rawDays) - 1)
        /\ (normProvider(rawProvider) = "all" \/ r.provider = normProvider(rawProvider))
  IN BagWhere(rollups, inWindow)

\* The rollup rows the group-usage query sums for a request.
GroupRows(req, rawDays, rawProvider) ==
  LET inWindow(r) ==
        /\ r.billingOwnerId = groupBillingOwner(req)
        /\ r.day >= isoDayUtc(now) - clampDays(rawDays)
        /\ (normProvider(rawProvider) = "all" \/ r.provider = normProvider(rawProvider))
  IN BagWhere(rollups, inWindow)

\* Today's events before now, of one provider and (when given) one owner.
LiveToday(rawProvider, owners) ==
  {i \in DOMAIN events :
     /\ isoDayUtc(events[i].ts) = isoDayUtc(now)
     /\ events[i].ts < now
     /\ (normProvider(rawProvider) = "all" \/ events[i].provider = normProvider(rawProvider))
     /\ events[i].billingOwnerId \in owners}

AllOwners == {NULL} \cup {req.billingOwnerId : req \in Requests}

\* C3: in the total of the summary and of the group-usage query no event is
\* both in a rollup row of the window and in today's live range: the total
\* is the cost of the events of either part, each counted once.
C3_NoDoubleCount ==
  /\ res.op = "summary" =>
       \A d \in DaysInputs, p \in ProviderInputs :
         LET hist == CoveredBy(SummaryRows(d, p))
             live == LiveToday(p, AllOwners)
         IN /\ hist \cap live = {}
            /\ summary(rollups, events, now, d, p).totalUsd
                 = SumCost(events, hist \cup live)
  /\ res.op = "groupUsage" =>
       \A req \in Requests, d \in DaysInputs, p \in ProviderInputs :
         LET hist == CoveredBy(GroupRows(req, d, p))
             live == LiveToday(p, {groupBillingOwner(req)})
         IN /\ hist \cap live = {}
            /\ groupUsage(rollups, events, now, req, d, p).totalCostUsd
                 = SumCost(events, hist \cup live)

C3_Witness ==
  /\ res.op = "summary"
  /\ \E d \in DaysInputs, p \in ProviderInputs :
       /\ summary(rollups, events, now, d, p).totalRollupUsd > 0
       /\ summary(rollups, events, now, d, p).todaySoFarUsd > 0

\* C4 as claimed: group-usage with days = N totals the owner's rollup rows of
\* the N - 1 days before today plus sumRange(owner, todayStart, now).
C4_WindowOfNMinusOneDays ==
  res.op = "groupUsage" =>
    \A req \in Requests, d \in DaysInputs :
      LET N == clampDays(d)
          owner == groupBillingOwner(req)
          past(r) == /\ r.billingOwnerId = owner
                     /\ r.day >= isoDayUtc(now) - (N - 1)
                     /\ r.day <= isoDayUtc(now) - 1
      IN groupUsage(rollups, events, now, req, d, "").totalCostUsd
           = BagSum(BagWhere(rollups, past), CostOf)
             + sumRange(events, owner, "all", isoDayUtc(now) * TicksPerDay, now)

\* C5: every event lies in the window of exactly one UTC day, and the rollup
\* of day D counts the events at startOfDay(D) and none at startOfDay(D) + 24h.
C5_HalfOpenDay ==
  /\ \A i \in DOMAIN events :
       Cardinality({D \in 0 .. isoDayUtc(MaxNow) + 1 :
                      /\ events[i].ts >= dayRangeUtc(D).startIso
                      /\ events[i].ts < dayRangeUtc(D).endIso}) = 1
  /\ res.op = "rollup" =>
       BagSum(RowsOfDay(rollups, res.day), EventsOf)
         = Cardinality({i \in DOMAIN events : events[i].ts >= res.day * TicksPerDay})
           - Cardinality({i \in DOMAIN events :
                            events[i].ts >= (res.day + 1) * TicksPerDay})

C5_Witness ==
  /\ res.op = "rollup"
  /\ \E i \in DOMAIN events : events[i].ts = res.day * TicksPerDay
  /\ \E i \in DOMAIN events : events[i].ts = (res.day + 1) * TicksPerDay

\* C6: a run without a day covers the UTC day before the current one, at any
\* time of day, so every rollup row is of a day strictly before today.
C6_OnlyPastDays ==
  /\ res.op \in {"rollup", "rollupError"} => res.day = isoDayUtc(now) - 1
  /\ \A r \in BagToSet(rollups) : r.day < isoDayUtc(now)

C6_Witness ==
  /\ res.op = "rollup"
  /\ res.rows >= 1
  /\ now % TicksPerDay # 0

\* C7: a run that fails inside its transaction leaves the rows of its day as
\* they were before the call.
C7_FailedRunRollsBack ==
  [][ res'.op = "rollupError"
      => RowsOfDay(rollups', res'.day) = RowsOfDay(rollups, res'.day) ]_vars

C7_Witness ==
  /\ res.op = "rollupError"
  /\ res.done >= 1
  /\ RowsOfDay(rollups, res.day) # EmptyBag

\* The rollup table as last committed.
Committed == IF tx.open THEN tx.before ELSE rollups

\* C8: a read endpoint never answers from a rollup table in which a day's
\* rows are deleted but not reinserted, or reinserted in part: what it reads
\* is the committed table, with the rows of each day as some complete run
\* (or no run) left them.
C8_ReadersSeeWholeDays ==
  res.op \in QueryOps =>
    /\ rollups = Committed
    /\ \A D \in 0 .. isoDayUtc(MaxNow) :
         \/ RowsOfDay(rollups, D) = EmptyBag
         \/ BagSum(RowsOfDay(rollups, D), EventsOf) = Cardinality(EventsOfDay(D))

C8_Witness ==
  /\ res.op \in QueryOps
  /\ \E D \in 0 .. isoDayUtc(MaxNow) :
       /\ BagToSet(RowsOfDay(rollups, D)) # {}
       /\ Cardinality(BagToSet(RowsOfDay(rollups, D))) >= 2

\* C9: the event table is append-only: a step either leaves it alone or adds
\* one event behind the stored ones, which keep all their fields.
C9_AppendOnly ==
  [][ /\ Len(events') >= Len(events)
      /\ SubSeq(events', 1, Len(events)) = events ]_vars

C9_Witness ==
  /\ Len(events) >= 2
  /\ res.op = "rollup"
  /\ res.rows >= 1

\* C10: only a rollup run changes the rollup table, only an emission changes
\* the event table, and no read endpoint changes either.
C10_WriterExclusivity ==
  [][ /\ rollups' # rollups => res'.op = "rollup"
      /\ events' # events => res'.op = "emit"
      /\ res'.op \in QueryOps => (rollups' = rollups /\ events' = events) ]_vars

C10_Witness ==
  /\ res.op \in QueryOps
  /\ events # << >>
  /\ rollups # EmptyBag

\* C11: an event inserted with a timestamp on a day D that has already been
\* rolled up leaves the rollup part of the summary's total as it was, for every
\* window and provider; the total moves only by what todaySoFarUsd moves, and
\* todaySoFarUsd moves only if D is the current UTC day.  The next rollup run
\* for D then holds the cost of every event of D, the late one included.
C11_LateEventWaitsForRollup ==
  [][ /\ (/\ res'.op = "insert"
          /\ \/ RowsOfDay(rollups, isoDayUtc(res'.record.ts)) # EmptyBag
             \/ (res.op = "rollup" /\ res.day = isoDayUtc(res'.record.ts)))
         => \A d \in DaysInputs, p \in ProviderInputs :
              LET D == isoDayUtc(res'.record.ts)
                  before == summary(rollups, events, now, d, p)
                  after == summary(rollups', events', now', d, p)
              IN /\ after.totalRollupUsd = before.totalRollupUsd
                 /\ after.totalUsd - before.totalUsd
                      = after.todaySoFarUsd - before.todaySoFarUsd
                 /\ after.todaySoFarUsd # before.todaySoFarUsd => D = isoDayUtc(now)
                 /\ D # isoDayUtc(now) => after.totalUsd = before.totalUsd
      /\ res'.op = "rollup"
         => BagSum(RowsOfDay(rollups', res'.day), CostOf)
              = SumCost(events', {i \in DOMAIN events' :
                                   isoDayUtc(events'[i].ts) = res'.day}) ]_vars

\* A late event of a past, rolled-up day that no rollup row accounts for yet.
C11_Witness ==
  /\ res.op = "insert"
  /\ isoDayUtc(res.record.ts) < isoDayUtc(now)
  /\ RowsOfDay(rollups, isoDayUtc(res.record.ts)) # EmptyBag
  /\ BagSum(RowsOfDay(rollups, isoDayUtc(res.record.ts)), CostOf)
       < SumCost(events, EventsOfDay(isoDayUtc(res.record.ts)))

\* The rollup rows and the events of one provider.
RowsOfProvider(table, q) ==
  LET mine(r) == r.provider = q IN BagWhere(table, mine)

EventsOfProvider(evs, q) == SelectSeq(evs, LAMBDA e : e.provider = q)

Providers == {charge.provider : charge \in Charges}

\* C12: in summary, cost-per-user and group-usage a provider p other than
\* "all" restricts the rollup source and the live source alike: the total
\* is the total the same query returns, unfiltered, on the rollup rows and the
\* events of provider p alone; for summary and group-usage that is the cost
\* of p's rollup rows of the window plus the cost of p's live events of today.
\* With "all" neither source is restricted: the total is the sum of the
\* totals of the providers.
C12_ProviderFilterOnBothSources ==
  /\ res.op = "summary" =>
       \A d \in DaysInputs :
         /\ \A p \in ProviderInputs \ {""} :
              LET q == normProvider(p)
              IN /\ summary(rollups, events, now, d, p).totalUsd
                      = summary(RowsOfProvider(rollups, q), EventsOfProvider(events, q),
                                now, d, "").totalUsd
                 /\ summary(rollups, events, now, d, p).totalUsd
                      = BagSum(RowsOfProvider(SummaryRows(d, ""), q), CostOf)
                        + SumCost(events, {i \in LiveToday("", AllOwners) :
                                             events[i].provider = q})
         /\ summary(rollups, events, now, d, "").totalUsd
              = SumFn([q \in Providers |-> summary(rollups, events, now, d, q).totalUsd])
  /\ res.op = "costPerUser" =>
       \A d \in DaysInputs :
         /\ \A p \in ProviderInputs \ {""} :
              costPerUser(rollups, events, now, d, p).totalUsd
                = costPerUser(RowsOfProvider(rollups, normProvider(p)),
                              EventsOfProvider(events, normProvider(p)),
                              now, d, "").totalUsd
         /\ costPerUser(rollups, events, now, d, "").totalUsd
              = SumFn([q \in Providers |-> costPerUser(rollups, events, now, d, q).totalUsd])
  /\ res.op = "groupUsage" =>
       \A req \in Requests, d \in DaysInputs :
         /\ \A p \in ProviderInputs \ {""} :
              LET q == normProvider(p)
              IN /\ groupUsage(rollups, events, now, req, d, p).totalCostUsd
                      = groupUsage(RowsOfProvider(rollups, q), EventsOfProvider(events, q),
                                   now, req, d, "").totalCostUsd
                 /\ groupUsage(rollups, events, now, req, d, p).totalCostUsd
                      = BagSum(RowsOfProvider(GroupRows(req, d, ""), q), CostOf)
                        + SumCost(events, {i \in LiveToday("", {groupBillingOwner(req)}) :
                                             events[i].provider = q})
         /\ groupUsage(rollups, events, now, req, d, "").totalCostUsd
              = SumFn([q \in Providers |->
                        groupUsage(rollups, events, now, req, d, q).totalCostUsd])

\* A summary over rollup rows of one provider and live events of the other.
C12_Witness ==
  /\ res.op = "summary"
  /\ \E q \in Providers :
       /\ summary(rollups, events, now, 2, q).totalRollupUsd > 0
       /\ summary(rollups, events, now, 2, q).todaySoFarUsd = 0
       /\ summary(rollups, events, now, 2, "").todaySoFarUsd > 0

\* The non-empty subjects of a set of rollup rows, and of a set of events.
SubjectsOfRows(rows) == {r.subjectUserId : r \in BagToSet(rows)} \ {NULL, ""}

SubjectsOfEvents(I) == {events[i].subjectUserId : i \in I} \ {NULL, ""}

\* C13: activeUsers of cost-per-user is the number of distinct non-empty
\* subjects in the rollup rows of the window or in today's live events, the
\* provider filter applied to both; a subject in both is counted once, so
\* when the two sets overlap activeUsers is less than the sum of their sizes.
C13_ActiveUsersIsUnion ==
  res.op = "costPerUser" =>
    \A d \in DaysInputs, p \in ProviderInputs :
      LET A == SubjectsOfRows(SummaryRows(d, p))
          B == SubjectsOfEvents(LiveToday(p, AllOwners))
          out == costPerUser(rollups, events, now, d, p)
      IN /\ out.activeUsers = Cardinality(A \cup B)
         /\ A \cap B # {} => out.activeUsers < Cardinality(A) + Cardinality(B)

C13_Witness ==
  /\ res.op = "costPerUser"
  /\ \E d \in DaysInputs, p \in ProviderInputs :
       SubjectsOfRows(SummaryRows(d, p))
         \cap SubjectsOfEvents(LiveToday(p, AllOwners)) # {}

\* Timestamps a range can start or end at.
RangeTs == 0 .. MaxNow + 1

\* C14: sumRange(owner, provider, startTs, endTs) is the cost of exactly the
\* owner's events with startTs <= ts < endTs: an event at startTs is in, one
\* at endTs is out, and for a <= b <= c the sums over [a, b) and [b, c) add
\* up to the sum over [a, c).
C14_SumRangeHalfOpen ==
  res.op = "groupUsage" =>
    \A req \in Requests, p \in {"", "all"} \cup Providers :
      LET owner == groupBillingOwner(req)
          mine(a, b) == {i \in DOMAIN events :
                          /\ events[i].billingOwnerId = owner
                          /\ p \in {"", "all", events[i].provider}
                          /\ a <= events[i].ts
                          /\ events[i].ts < b}
      IN \A a \in RangeTs, b \in RangeTs, c \in RangeTs :
           (a <= b /\ b <= c) =>
             /\ sumRange(events, owner, p, a, b) = SumCost(events, mine(a, b))
             /\ sumRange(events, owner, p, a, b) + sumRange(events, owner, p, b, c)
                  = sumRange(events, owner, p, a, c)

\* Group-usage has summed today's range with an event at its start, and the
\* store holds an event at the instant the range ends.
C14_Witness ==
  /\ res.op = "groupUsage"
  /\ \E i \in DOMAIN events : events[i].ts = todayStartTs(now) /\ events[i].ts < now
  /\ \E i \in DOMAIN events : events[i].ts = now

C16_MissingSubjectStoredAsNull ==
  [][ \A req \in Requests, charge \in Charges, subject \in {"", NULL} :
        Emit(req, charge, subject) =>
          /\ res'.op = "emit"
          /\ Len(events') = Len(events) + 1
          /\ SubSeq(events', 1, Len(events)) = events
          /\ events'[Len(events')] = res'.record
          /\ res'.record.subjectUserId = NULL
          /\ res'.record.requestId = req.requestId
          /\ res'.record.actorUserId = req.userId
          /\ res'.record.billingOwnerId = req.billingOwnerId
          /\ res'.record.mode = req.mode
          /\ res'.record.provider = charge.provider
          /\ res'.record.costUsd = charge.costUsd ]_vars

C16_Witness ==
  /\ res.op = "emit"
  /\ res.record.subjectUserId = NULL
  /\ events[Len(events)] = res.record
  /\ res.record.billingOwnerId # NULL

\* C17: when the insert of a usage event fails, the handler that emitted it
\* answers with a failure, nothing is stored (no retry), and the payload is
\* not cached.
C17_InsertFailureSurfaces ==
  [][ (res'.op \in MeteringOps /\ res'.insertFailed)
      => /\ res'.status = 500
         /\ events' = events
         /\ cache' = cache ]_vars

C17_Witness ==
  /\ res.op = "scan"
  /\ res.insertFailed
  /\ res.external = "ok"
  /\ res.status = 500

\* C18: in the scan, places-nearby and places-search handlers a request whose
\* external call throws or answers with a non-OK status inserts no usage event.
C18_FailedCallNotCharged ==
  [][ (res'.op \in MeteringOps /\ res'.external \in {"throws", "notOk"})
      => events' = events ]_vars

C18_Witness ==
  /\ res.op = "placesNearby"
  /\ res.external = "notOk"
  /\ events # << >>

\* C19 as claimed: every request in which a paid external call succeeds
\* persists exactly one usage event for it (unless the insert itself fails).
C19_EveryPaidCallMetered ==
  [][ (res'.op \in PaidOps /\ res'.external \in {"ok", "okUnparsable"}
         /\ ~res'.insertFailed)
      => Len(events') = Len(events) + 1 ]_vars

\* C20: a rollup run that fails, at startup or on a tick, leaves the process
\* running with the hourly timer armed and both tables as they were; after
\* it the read endpoints are still served, the timer is armed with no run
\* on the stack, and a tick taken then runs the rollup of yesterday again,
\* to completion.
C20_SchedulerSurvivesFailure ==
  [][ /\ res'.op = "rollupError"
         => /\ timer' = "armed"
            /\ rollups' = rollups
            /\ events' = events
      /\ res.op = "rollupError"
         => /\ timer = "armed"
            /\ Idle
            /\ ENABLED Summary
            /\ ENABLED CostPerUser
            /\ ENABLED ByDay
            /\ ENABLED GroupUsage
            /\ ENABLED Usage
      /\ (res.op = "rollupError" /\ HourlyTick)
         => /\ res'.op = "rollup"
            /\ res'.day = defaultRollupDay(now)
            /\ BagSum(RowsOfDay(rollups', res'.day), EventsOf)
                 = Cardinality(EventsOfDay(res'.day)) ]_vars

\* A failed hourly run over a table that holds an earlier run's rows.
C20_Witness ==
  /\ res.op = "rollupError"
  /\ timer = "armed"
  /\ rollups # EmptyBag
  /\ res.done >= 1

\* C21 as claimed: a read endpoint whose query throws answers with an empty
\* or zero result, not with a failure.
C21_QueryErrorAbsorbed ==
  (res.op \in DashboardOps /\ "queryFailed" \in DOMAIN res)
    => (res.status = 200 /\ "error" \notin DOMAIN res)

SeriesOfDay(series, D) == {k \in DOMAIN series : series[k].day = D}

\* C23 as claimed: after runDailyRollup(D) of a day D that holds events, the
\* by-day query with days=1 has an entry for D with the cost and the count of
\* D's events.
C23_ByDayOfOneDayHasD ==
  (res.op = "rollup" /\ EventsOfDay(res.day) # {})
    => \E k \in DOMAIN byDay(rollups, now, 1, "").series :
         LET x == byDay(rollups, now, 1, "").series[k]
         IN /\ x.day = res.day
            /\ x.costUsd = SumCost(events, EventsOfDay(res.day))
            /\ x.events = Cardinality(EventsOfDay(res.day))

\* C23, amended: after runDailyRollup(D) of a day D that holds events, the
\* by-day query with days=N has exactly one entry for D, with the cost and
\* the count of D's events, when D is one of the N days that end with today;
\* otherwise it has none.  With days=1 that is the case only for D = today.
C23_ByDayWithinWindowHasD ==
  (res.op = "rollup" /\ EventsOfDay(res.day) # {})
    => \A d \in DaysInputs :
         LET series == byDay(rollups, now, d, "").series
             mine == SeriesOfDay(series, res.day)
         IN IF res.day >= isoDayUtc(now) - (clampDays(d) - 1)
            THEN /\ Cardinality(mine) = 1
                 /\ \A k \in mine :
                      /\ series[k].costUsd = SumCost(events, EventsOfDay(res.day))
                      /\ series[k].events = Cardinality(EventsOfDay(res.day))
            ELSE mine = {}

\* A rollup of today over events of two keys: by-day with days=1 shows it.
C23_Witness ==
  /\ res.op = "rollup"
  /\ res.day = isoDayUtc(now)
  /\ res.rows >= 2
  /\ SeriesOfDay(byDay(rollups, now, 1, "").series, res.day) # {}

\* Event i is accounted for by a rollup row of its day and key that counts
\* every stored event of that day and key.
Accounted(i) ==
  /\ i \in DOMAIN events
  /\ \E r \in BagToSet(rollups) :
       /\ r.day = isoDayUtc(events[i].ts)
       /\ RowKey(r) = GroupKey(events[i])
       /\ r.events = Cardinality({j \in EventsOfDay(r.day) :
                                    GroupKey(events[j]) = GroupKey(events[i])})

\* C24: with the process up and the scheduler ticking, a run that completes
\* during day D + 1 is a run for D and leaves rows of D that account for all
\* of D's events, and every stored event of a day that the clock gets past is
\* eventually accounted for by a rollup row of its day.
C24_EventuallyRolledUp ==
  /\ [](res.op = "rollup"
          => /\ res.day = isoDayUtc(now) - 1
             /\ \A i \in EventsOfDay(res.day) : Accounted(i))
  /\ \A i \in 1 .. MaxEvents :
       [](( /\ i \in DOMAIN events
            /\ isoDayUtc(events[i].ts) < isoDayUtc(MaxNow) )
          => <>Accounted(i))

\* An event of yesterday that yesterday's rollup rows account for.
C24_Witness ==
  /\ res.op = "rollup"
  /\ res.rows >= 1
  /\ \E i \in DOMAIN events :
       isoDayUtc(events[i].ts) = isoDayUtc(now) - 1 /\ Accounted(i)

\* C25: the rollup table never holds two rows with the same day,
\* billingOwnerId, actorUserId, subjectUserId, provider and service, whether
\* or not some of the three ids are NULL.
C25_OneRowPerKey ==
  /\ \A r \in BagToSet(rollups) : CopiesIn(r, rollups) = 1
  /\ \A r, s \in BagToSet(rollups) : SameKey(r, s) => r = s

\* A day rolled up a second time whose rows include one without owner, actor
\* and subject.
C25_Witness ==
  /\ res.op = "rollup"
  /\ res.again
  /\ \E r \in BagToSet(rollups) :
       /\ r.day = res.day
       /\ r.billingOwnerId = NULL
       /\ r.actorUserId = NULL
       /\ r.subjectUserId = NULL

\* The costs of a list of entries, added up.
EntriesCost(q) == SumFn([k \in DOMAIN q |-> q[k].costUsd])

\* A list of entries is in order of non-increasing cost.
CostDescending(q) ==
  \A j \in DOMAIN q, k \in DOMAIN q : j < k => q[j].costUsd >= q[k].costUsd

\* C26: for every owner, provider and range, sumRangeBySubject has exactly one
\* entry per subject among the owner's events of that provider with
\* startTs <= ts < endTs, sumRangeByService one per (provider, service) pair
\* among them, each entry carries the cost of its group, both lists are in
\* order of non-increasing cost, and the costs of either add up to sumRange.
C26_BreakdownsMatchSumRange ==
  res.op = "groupUsage" =>
    \A req \in Requests, p \in {"", "all"} \cup Providers,
       a \in RangeTs, b \in RangeTs :
      LET owner == groupBillingOwner(req)
          mine == {i \in DOMAIN events :
                     /\ events[i].billingOwnerId = owner
                     /\ p \in {"", "all", events[i].provider}
                     /\ a <= events[i].ts
                     /\ events[i].ts < b}
          bySubj == sumRangeBySubject(events, owner, p, a, b)
          bySvc == sumRangeByService(events, owner, p, a, b)
          ofSubj(g) == {i \in mine : events[i].subjectUserId = g}
          ofSvc(x) == {i \in mine : /\ events[i].provider = x.provider
                                    /\ events[i].service = x.service}
      IN /\ {bySubj[k].grp : k \in DOMAIN bySubj}
              = {events[i].subjectUserId : i \in mine}
         /\ \A j \in DOMAIN bySubj, k \in DOMAIN bySubj :
              bySubj[j].grp = bySubj[k].grp => j = k
         /\ \A k \in DOMAIN bySubj :
              bySubj[k].costUsd = SumCost(events, ofSubj(bySubj[k].grp))
         /\ CostDescending(bySubj)
         /\ EntriesCost(bySubj) = sumRange(events, owner, p, a, b)
         /\ {<<bySvc[k].provider, bySvc[k].service>> : k \in DOMAIN bySvc}
              = {<<events[i].provider, events[i].service>> : i \in mine}
         /\ \A j \in DOMAIN bySvc, k \in DOMAIN bySvc :
              ( /\ bySvc[j].provider = bySvc[k].provider
                /\ bySvc[j].service = bySvc[k].service ) => j = k
         /\ \A k \in DOMAIN bySvc :
              /\ bySvc[k].costUsd = SumCost(events, ofSvc(bySvc[k]))
              /\ bySvc[k].events = Cardinality(ofSvc(bySvc[k]))
         /\ CostDescending(bySvc)
         /\ EntriesCost(bySvc) = sumRange(events, owner, p, a, b)

\* Group-usage has broken down a today in which one owner has two events of
\* different subjects, services and costs, while another owner has none.
C26_Witness ==
  /\ res.op = "groupUsage"
  /\ \E i \in DOMAIN events, j \in DOMAIN events :
       /\ events[i].billingOwnerId = events[j].billingOwnerId
       /\ events[i].subjectUserId # events[j].subjectUserId
       /\ events[i].service # events[j].service
       /\ events[i].costUsd < events[j].costUsd
       /\ todayStartTs(now) <= events[i].ts /\ events[i].ts < now
       /\ todayStartTs(now) <= events[j].ts /\ events[j].ts < now

\* C27: for the same store state, days and provider the cost-per-user total
\* equals the summary total: the rollup total of the window plus the cost of
\* today's events of every billing owner.
C27_CostPerUserTotalIsSummaryTotal ==
  res.op = "costPerUser" =>
    \A d \in DaysInputs, p \in ProviderInputs :
      costPerUser(rollups, events, now, d, p).totalUsd
        = summary(rollups, events, now, d, p).totalUsd

\* C28: in a group-usage response the values of bySubjectUserId add up to
\* totalCostUsd, so do the costs of byService, byService has one entry per
\* (provider, service) pair in order of non-increasing cost, the key "unknown"
\* carries the cost of exactly the rows and live events without subject, and
\* every other key the cost of exactly its own subject.
C28_GroupBreakdownsAddUp ==
  res.op = "groupUsage" =>
    \A req \in Requests, d \in DaysInputs, p \in ProviderInputs :
      LET g == groupUsage(rollups, events, now, req, d, p)
          rows == GroupRows(req, d, p)
          live == LiveToday(p, {groupBillingOwner(req)})
          costOf(s) ==
            LET mine(r) == r.subjectUserId = s
            IN BagSum(BagWhere(rows, mine), CostOf)
                 + SumCost(events, {i \in live : events[i].subjectUserId = s})
          hasNoSubject ==
            \/ \E r \in BagToSet(rows) : r.subjectUserId = NULL
            \/ \E i \in live : events[i].subjectUserId = NULL
      IN g.status = 200 =>
           /\ SumFn(g.bySubjectUserId) = g.totalCostUsd
           /\ EntriesCost(g.byService) = g.totalCostUsd
           /\ CostDescending(g.byService)
           /\ \A j \in DOMAIN g.byService, k \in DOMAIN g.byService :
                ( /\ g.byService[j].provider = g.byService[k].provider
                  /\ g.byService[j].service = g.byService[k].service ) => j = k
           /\ hasNoSubject =>
                /\ "unknown" \in DOMAIN g.bySubjectUserId
                /\ g.bySubjectUserId["unknown"] = costOf(NULL)
           /\ \A k \in DOMAIN g.bySubjectUserId \ {"unknown"} :
                g.bySubjectUserId[k] = costOf(k)

\* C29: a scan answered from the cache calls OpenAI not at all, leaves the
\* cache as it is and, unless the insert fails, stores exactly one event with
\* units, unitCostUsd and costUsd 0; a scan answered 200 without the cache
\* stores exactly one event with units 1 and leaves its result cached; and
\* the cache changes in no step that has not stored the units-1 event.
C29_CachedScanIsFree ==
  [][ res'.op = "scan" =>
        LET last == events'[Len(events')]
            stored == Len(events') = Len(events) + 1
        IN /\ res'.cached =>
                /\ res'.external = "none"
                /\ cache' = cache
                /\ ~res'.insertFailed =>
                     /\ res'.status = 200
                     /\ stored
                     /\ last.units = 0
                     /\ last.unitCostUsd = 0
                     /\ last.costUsd = 0
           /\ (~res'.cached /\ res'.status = 200) =>
                /\ res'.external = "ok"
                /\ stored
                /\ last.units = 1
                /\ cacheGet(cache', <<"scan", last.subjectUserId>>, now)
           /\ cache' # cache => (stored /\ last.units = 1) ]_vars

\* A scan answered from the cache after the scan that filled it: the store
\* holds the units-1 event of the first and the units-0 event of the second.
C29_Witness ==
  /\ res.op = "scan"
  /\ res.cached
  /\ res.status = 200
  /\ Len(events) = 2
  /\ events[1].units = 1
  /\ events[2].units = 0
  /\ events[1].subjectUserId = events[2].subjectUserId

\* Event i has no row accounting for it and the day after its own is over.
PastDue(i) ==
  /\ i \in DOMAIN events
  /\ ~Accounted(i)
  /\ isoDayUtc(now) > isoDayUtc(events[i].ts) + 1

\* C30 as claimed: once the process is up again, every stored event of a day
\* before today is eventually accounted for by a rollup row of its day.
C30_EveryPastDayRolledUp ==
  \A i \in 1 .. MaxEvents :
    [](( /\ timer = "armed"
         /\ i \in DOMAIN events
         /\ isoDayUtc(events[i].ts) < isoDayUtc(now) )
       => <>Accounted(i))

\* C30: a run changes the rows of yesterday only; an event of a day the clock
\* gets past is eventually either accounted for by a row of its day or past
\* due, and once past due it stays so: a restart covers yesterday, a day
\* before yesterday that has no rows gets none.
C30_OnlyYesterdayIsCovered ==
  /\ [][ \A D \in 0 .. isoDayUtc(MaxOutageNow) :
           RowsOfDay(rollups', D) # RowsOfDay(rollups, D)
             => /\ D = isoDayUtc(now) - 1
                /\ res'.op = "rollup" ]_vars
  /\ \A i \in 1 .. MaxEvents :
       /\ [](( /\ i \in DOMAIN events
                /\ isoDayUtc(events[i].ts) < isoDayUtc(MaxOutageNow) )
              => <>(Accounted(i) \/ PastDue(i)))
       /\ [](PastDue(i) => []PastDue(i))

\* The process is up again after an outage: the startup run has given
\* yesterday's event its row, and an event of the day before has none.
C30_Witness ==
  /\ timer = "armed"
  /\ res.op = "rollup"
  /\ \E i \in DOMAIN events :
       isoDayUtc(events[i].ts) = isoDayUtc(now) - 1 /\ Accounted(i)
  /\ \E j \in DOMAIN events : PastDue(j)

====
